---- MODULE Spec2Model ----
(***************************************************************************)
(* Model of the OCR service of textBot-ocr: OCRService.detectText, the     *)
(* line reconstruction OCRService.organizeTextByLines, detectDocumentText, *)
(* the wrappers detectTextFromUrl and detectTextFromBase64, and the routes *)
(* of the Express server that call them.  Spec follows one call or one     *)
(* request step by step; Concurrent follows several requests in flight at  *)
(* once, interleaved at their awaits.                                      *)
(*                                                                         *)
(* JavaScript values are represented as follows.                           *)
(*   - an optional value (a property that may be undefined, a list entry   *)
(*     that may be null) is None = << >> when absent and Some(v) = <<v>>   *)
(*     when present;                                                       *)
(*   - a string is a sequence of one-character strings;                    *)
(*   - an object reference to an element of the textDetails array is the   *)
(*     element's index in textDetails (the arrays sortedTexts and          *)
(*     line.words hold references, not copies).                            *)
(***************************************************************************)
EXTENDS Integers, Sequences, FiniteSets, TLC

\* ------------------------------------------------------------------ bounds
\* Longest list of word annotations the provider or a direct caller supplies.
MaxWords == 3

\* ------------------------------------------------------- optional values
None == << >>
Some(v) == <<v>>

\* JavaScript `v || d` for an optional number v: undefined and 0 are falsy.
OrElse(v, d) == IF v = None \/ v[1] = 0 THEN d ELSE v[1]

Abs(n) == IF n < 0 THEN -n ELSE n
Min(a, b) == IF a <= b THEN a ELSE b
Max(a, b) == IF a >= b THEN a ELSE b

\* ---------------------------------------------------------------- strings
Space == <<" ">>

IsSpace(c) == c = " "

RECURSIVE TrimStart(_)
TrimStart(s) ==
  IF s = << >> THEN << >>
  ELSE IF IsSpace(Head(s)) THEN TrimStart(Tail(s)) ELSE s

RECURSIVE TrimEnd(_)
TrimEnd(s) ==
  IF s = << >> THEN << >>
  ELSE IF IsSpace(s[Len(s)]) THEN TrimEnd(SubSeq(s, 1, Len(s) - 1)) ELSE s

\* String.prototype.trim
Trim(s) == TrimEnd(TrimStart(s))

\* s.split(/\s+/).length: one more than the number of maximal runs of
\* whitespace in s (the empty string splits into one empty piece).
SplitCount(s) ==
  1 + Cardinality({k \in 1..Len(s) :
                     IsSpace(s[k]) /\ (k = 1 \/ ~IsSpace(s[k - 1]))})

\* Array.prototype.join(' ') over a sequence of optional strings: an
\* undefined element is joined as the empty string.
RECURSIVE Join(_)
Join(ts) ==
  IF ts = << >> THEN << >>
  ELSE LET h == IF Head(ts) = None THEN << >> ELSE Head(ts)[1]
       IN IF Len(ts) = 1 THEN h ELSE h \o Space \o Join(Tail(ts))

\* String concatenation `'' + t` of an optional string: undefined prints as
\* "undefined".
Str(t) ==
  IF t = None THEN <<"u", "n", "d", "e", "f", "i", "n", "e", "d">> ELSE t[1]

\* --------------------------------------------------------------- geometry
\* w.boundingBox?.vertices?.[k] for a word detail w (k counted from 0)
Vertex(w, k) ==
  IF w.boundingBox = None THEN None
  ELSE LET vs == w.boundingBox[1].vertices
       IN IF vs = None THEN None
          ELSE IF k + 1 > Len(vs[1]) THEN None ELSE Some(vs[1][k + 1])

\* w.boundingBox?.vertices?.[k]?.x and ...?.y (optional numbers)
VertexX(w, k) == IF Vertex(w, k) = None THEN None ELSE Vertex(w, k)[1].x
VertexY(w, k) == IF Vertex(w, k) = None THEN None ELSE Vertex(w, k)[1].y

\* TopLeftY with a default other than 0.
TopLeftYDefaultOne(w) == OrElse(VertexY(w, 0), 1)

\* a.boundingBox?.vertices?.[0]?.y || 0 and ...?.x || 0
TopLeftY(w) == OrElse(VertexY(w, 0), 0)
TopLeftX(w) == OrElse(VertexX(w, 0), 0)

\* ------------------------------------------------------------------ sort
\* Array.prototype.sort with the comparator key(a) - key(b): a stable sort,
\* so elements with equal keys keep their relative order.  refs is a
\* sequence of references, key[r] the sort key of reference r.
\* InsertStable placing an element before the elements with an equal key.
RECURSIVE InsertUnstable(_, _, _)
InsertUnstable(sorted, r, key) ==
  IF sorted = << >> THEN <<r>>
  ELSE IF key[sorted[Len(sorted)]] < key[r] THEN Append(sorted, r)
  ELSE Append(InsertUnstable(SubSeq(sorted, 1, Len(sorted) - 1), r, key),
              sorted[Len(sorted)])

RECURSIVE InsertStable(_, _, _)
InsertStable(sorted, r, key) ==
  IF sorted = << >> THEN <<r>>
  ELSE IF key[sorted[Len(sorted)]] <= key[r] THEN Append(sorted, r)
  ELSE Append(InsertStable(SubSeq(sorted, 1, Len(sorted) - 1), r, key),
              sorted[Len(sorted)])

RECURSIVE StableSort(_, _)
StableSort(refs, key) ==
  IF refs = << >> THEN << >>
  ELSE InsertStable(StableSort(SubSeq(refs, 1, Len(refs) - 1), key),
                    refs[Len(refs)], key)

\* ---------------------------------------------------- provider annotations
\* A bounding polygon with all four corners: top-left, top-right,
\* bottom-right, bottom-left.
Poly(left, top, right, bottom) ==
  Some([vertices |-> Some(<<[x |-> Some(left),  y |-> Some(top)],
                           [x |-> Some(right), y |-> Some(top)],
                           [x |-> Some(right), y |-> Some(bottom)],
                           [x |-> Some(left),  y |-> Some(bottom)]>>)])

Annotation(d, s, p) == [description |-> Some(d), score |-> s, boundingPoly |-> p]

\* The word annotations a provider result is drawn from: words on one
\* visual row (A, B, E), a word within the threshold of B but not of A (D),
\* a word far below (C), two words at the same position (A, E), two words
\* with the same x (B, D), and annotations with missing geometry (F, G, H).
AnnA == Annotation(<<"A">>, Some(95), Poly(50, 10, 58, 18))
AnnB == Annotation(<<"B">>, Some(98), Poly(10, 12, 18, 20))
AnnC == Annotation(<<"C">>, None,     Poly(5, 60, 13, 68))
AnnD == Annotation(<<"D">>, Some(92), Poly(10, 31, 18, 39))
AnnE == Annotation(<<"E">>, None,     Poly(50, 10, 70, 18))
AnnF == Annotation(<<"F">>, None,     None)
AnnG == Annotation(<<"G">>, Some(90), Some([vertices |-> None]))
AnnH == Annotation(<<"H">>, Some(80),
                   Some([vertices |-> Some(<<[x |-> None, y |-> Some(12)]>>)]))

AnnotationPool == {AnnA, AnnB, AnnC, AnnD, AnnE, AnnF, AnnG, AnnH}

\* Three words drifting downward by 15: each is within the threshold of the
\* one above it, the third is not within the threshold of the first.
AnnP == Annotation(<<"P">>, Some(90), Poly(5, 0, 13, 8))
AnnQ == Annotation(<<"Q">>, Some(90), Poly(30, 15, 38, 23))
AnnR == Annotation(<<"R">>, Some(90), Poly(55, 30, 63, 38))

\* The first annotation of a provider result, which carries the whole text.
FullTextPool ==
  {[description |-> None, score |-> None, boundingPoly |-> None],
   Annotation(<<" ", "B", " ", "A", " ", " ", "C", " ">>, None,
              Poly(5, 10, 58, 68))}

\* All sequences over S of length at most n.
RECURSIVE SeqsUpTo(_, _)
SeqsUpTo(S, n) ==
  IF n = 0 THEN {<< >>}
  ELSE LET shorter == SeqsUpTo(S, n - 1)
       IN shorter \cup {Append(q, e) : q \in {r \in shorter : Len(r) = n - 1},
                                       e \in S}

\* result.textAnnotations of a resolved provider call: absent, or a list
\* that is empty or starts with the full-text annotation.
ProviderResults ==
  {None, Some(<< >>)} \cup
  {Some(<<f>> \o ws) : f \in FullTextPool, ws \in SeqsUpTo(AnnotationPool, MaxWords)}

\* The provider results drawn for a call that comes through a route: no
\* annotations, a full text alone, and a full text with two words.
RoutedProviderResults ==
  {None} \cup {Some(<<f>> \o ws) : f \in FullTextPool,
                                  ws \in {<< >>, <<AnnB, AnnA>>}}

\* The errors a rejected provider call carries (code, message).
ProviderErrors ==
  {[code |-> Some(7), message |-> "permission denied"],
   [code |-> None,    message |-> "network error"]}

\* ------------------------------------------------------------ word details
\* The element detectText builds for one word annotation.
Detail(a) ==
  [text |-> a.description,
   confidence |-> Some(OrElse(a.score, 0)),
   boundingBox |-> a.boundingPoly]

\* The entries a direct caller of organizeTextByLines passes: the details
\* detectText builds, a detail without confidence, and a null entry.
DetailEntries ==
  {Some(Detail(a)) : a \in (AnnotationPool \ {AnnF}) \cup {AnnP, AnnQ, AnnR}}
    \cup {Some([text |-> Some(<<"F">>), confidence |-> None, boundingBox |-> None])}
    \cup {None}

\* The arguments of a direct call: null/undefined, or a list of entries.
OrganizeArguments ==
  {None} \cup {Some(ws) : ws \in SeqsUpTo(DetailEntries, MaxWords)}

\* ----------------------------------------------------- organizeTextByLines
\* const lineThreshold = 20
lineThreshold == 20

\* SortedTexts without the sort: the references in input order.
SortedTextsUnsorted(ws) == [k \in 1..Len(ws) |-> k]

\* textDetails.slice().sort((a, b) => aY - bY): the references to the
\* elements of the list ws, in ascending order of top-left y.
SortedTexts(ws) ==
  StableSort([k \in 1..Len(ws) |-> k],
             [k \in 1..Len(ws) |-> TopLeftY(ws[k][1])])

\* NewLine numbering the lines from 0.
NewLineZeroBased(ls, r, w) ==
  [lineNumber |-> Len(ls),
   averageY |-> TopLeftY(w),
   words |-> <<r>>,
   text |-> Str(w.text),
   boundingBox |-> [minX |-> TopLeftX(w), maxX |-> TopLeftX(w),
                    minY |-> TopLeftY(w), maxY |-> TopLeftY(w)]]

\* AfterYSort sorting the argument itself (no slice()): the caller's list
\* is reordered and sortedTexts is that same list.
AfterYSortInPlace(ws) ==
  [argument |-> [k \in 1..Len(ws) |-> ws[SortedTexts(ws)[k]]],
   sortedTexts |-> [k \in 1..Len(ws) |-> k]]

\* The two arrays after `textDetails.slice().sort(...)`: the caller's list,
\* which slice() copied and the sort therefore left alone, and sortedTexts.
AfterYSort(ws) == [argument |-> ws, sortedTexts |-> SortedTexts(ws)]

\* The line object created when the word w (reference r) opens a line.
NewLine(ls, r, w) ==
  [lineNumber |-> Len(ls) + 1,
   averageY |-> TopLeftY(w),
   words |-> <<r>>,
   text |-> Str(w.text),
   boundingBox |-> [minX |-> TopLeftX(w), maxX |-> TopLeftX(w),
                    minY |-> TopLeftY(w), maxY |-> TopLeftY(w)]]

\* AddWord that also moves the line's anchor to the appended word.
AddWordMovesAnchor(line, r, w) ==
  LET textX == TopLeftX(w)
      textY == TopLeftY(w)
      textMaxX == OrElse(VertexX(w, 1), textX)
      textMaxY == OrElse(VertexY(w, 2), textY)
      bb == line.boundingBox
  IN [line EXCEPT
        !.averageY = textY,
        !.words = Append(@, r),
        !.text = @ \o Space \o Str(w.text),
        !.boundingBox = [minX |-> Min(bb.minX, textX),
                         maxX |-> Max(bb.maxX, textMaxX),
                         minY |-> Min(bb.minY, textY),
                         maxY |-> Max(bb.maxY, textMaxY)]]

\* The current line after the word w (reference r) was appended to it.
AddWord(line, r, w) ==
  LET textX == TopLeftX(w)
      textY == TopLeftY(w)
      textMaxX == OrElse(VertexX(w, 1), textX)
      textMaxY == OrElse(VertexY(w, 2), textY)
      bb == line.boundingBox
  IN [line EXCEPT
        !.words = Append(@, r),
        !.text = @ \o Space \o Str(w.text),
        !.boundingBox = [minX |-> Min(bb.minX, textX),
                         maxX |-> Max(bb.maxX, textMaxX),
                         minY |-> Min(bb.minY, textY),
                         maxY |-> Max(bb.maxY, textMaxY)]]

\* OpensLine with `>=` in place of `>`.
OpensLineAtThreshold(ls, w) ==
  \/ ls = << >>
  \/ Abs(TopLeftY(w) - ls[Len(ls)].averageY) >= lineThreshold

\* Whether the word w opens a new line: there is no current line, or w is
\* further than the threshold from the current line's anchor.
OpensLine(ls, w) ==
  \/ ls = << >>
  \/ Abs(TopLeftY(w) - ls[Len(ls)].averageY) > lineThreshold

\* GroupStep that forgets a word that joins the current line.
GroupStepDropsWord(ls, r, w) ==
  IF OpensLine(ls, w) THEN Append(ls, NewLine(ls, r, w)) ELSE ls

\* One iteration of the grouping loop; the current line is the last of ls.
GroupStep(ls, r, w) ==
  IF OpensLine(ls, w)
  THEN Append(ls, NewLine(ls, r, w))
  ELSE [ls EXCEPT ![Len(ls)] = AddWord(@, r, w)]

\* SortLineWords without the x sort: only the text is rebuilt.
SortLineWordsUnsorted(line, ws) ==
  [line EXCEPT
     !.text = Join([k \in 1..Len(line.words) |-> ws[line.words[k]][1].text])]

\* line.words.sort((a, b) => aX - bX) and the rebuilt line.text
SortLineWords(line, ws) ==
  LET sorted == StableSort(line.words,
                           [k \in 1..Len(ws) |-> TopLeftX(ws[k][1])])
  IN [line EXCEPT
        !.words = sorted,
        !.text = Join([k \in 1..Len(sorted) |-> ws[sorted[k]][1].text])]

\* The element of line.words.map(...) for the word w.
OutputWord(w) ==
  [text |-> w.text,
   confidence |-> w.confidence,
   position |-> [x |-> TopLeftX(w), y |-> TopLeftY(w)]]

\* The element of the returned lines.map(...) for one line.
OutputLine(line, ws) ==
  [lineNumber |-> line.lineNumber,
   text |-> line.text,
   wordCount |-> Len(line.words),
   words |-> [k \in 1..Len(line.words) |-> OutputWord(ws[line.words[k]][1])],
   boundingBox |-> line.boundingBox]

\* ------------------------------------------------------------------ state
VARIABLES
  pc,           \* where the call in progress stands
  entry,        \* the function running: "organize", "detect" or "document"
  detections,   \* result.textAnnotations of the provider call
  error,        \* the error caught by detectText
  fullText,     \* detectText's fullText
  textDetails,  \* the argument of organizeTextByLines
  sortedTexts,  \* organizeTextByLines' sortedTexts (references)
  idx,          \* position of the for-of loop in sortedTexts
  lines,        \* organizeTextByLines' lines; currentLine is the last one
  organized,    \* the value organizeTextByLines returned
  result,       \* the value the service function returned
  credentials,  \* whether the environment names an API key or key file
  imageInput,   \* the image detectText / detectDocumentText is given
  fullTextAnnotation,  \* result.fullTextAnnotation of the document call
  route,        \* the route serving the request, "none" for a direct call
  request,      \* the request the route received
  via,          \* the wrapper that was called: "url", "base64" or "none"
  args,         \* the arguments of the wrapper call
  download,     \* the request fetch issued for the image
  response,     \* the response sent to the client
  frames,       \* concurrent requests: the bindings of each invocation
  pending,      \* concurrent requests: the promise each one awaits
  exchange      \* concurrent requests: what each client sent and received

vars == <<pc, entry, detections, error, fullText, textDetails, sortedTexts,
          idx, lines, organized, result, credentials, imageInput,
          fullTextAnnotation, route, request, via, args, download, response,
          frames, pending, exchange>>

\* The locals of detectText and organizeTextByLines.
coreVars == <<detections, error, fullText, textDetails, sortedTexts, idx,
              lines, organized>>

\* The request being served and what the wrappers did for it.
httpVars == <<route, request, via, args, download, response>>

\* The state of the requests served concurrently.
concVars == <<frames, pending, exchange>>

\* The state of the single call followed step by step.
seqVars == <<pc, entry, result, coreVars, imageInput, fullTextAnnotation,
             httpVars>>

\* Everything outside detectText and organizeTextByLines.
outerVars == <<credentials, imageInput, fullTextAnnotation, route, request,
               via, args, download, response>>

\* The requests in flight at once.
MaxRequests == 2

Clients == 1..MaxRequests

\* The bindings of one handler invocation and of the service calls it
\* makes, before any is assigned.
NoFrame ==
  [res |-> 0, route |-> "none", imageUrl |-> None, imageInput |-> None,
   result |-> None]

\* What a request is waiting for: op is "idle" (not yet received), "fetch",
\* "ocr", "return" (the service promise is settled) or "done" (answered).
Await(op, arg) == [op |-> op, arg |-> arg]

Init ==
  /\ pc = "idle"
  /\ entry = "none"
  /\ detections = None
  /\ error = None
  /\ fullText = << >>
  /\ textDetails = None
  /\ sortedTexts = << >>
  /\ idx = 1
  /\ lines = << >>
  /\ organized = None
  /\ result = None
  /\ credentials \in BOOLEAN
  /\ imageInput = None
  /\ fullTextAnnotation = None
  /\ route = "none"
  /\ request = None
  /\ via = "none"
  /\ args = None
  /\ download = None
  /\ response = None
  /\ frames = [s \in Clients |-> NoFrame]
  /\ pending = [r \in Clients |-> Await("idle", None)]
  /\ exchange = [r \in Clients |-> [request |-> None, responses |-> << >>]]

\* The TypeError thrown when a property of null is read.
TypeError == [code |-> None, message |-> "cannot read properties of null"]

\* A caller invokes organizeTextByLines(arg) directly.
CallOrganize ==
  /\ pc = "idle"
  /\ \E arg \in OrganizeArguments : textDetails' = arg
  /\ entry' = "organize"
  /\ pc' = "organize"
  /\ UNCHANGED <<detections, error, fullText, sortedTexts, idx, lines,
                 organized, result>>
  /\ UNCHANGED outerVars
  /\ UNCHANGED concVars

\* The guard and the y sort.  The comparator dereferences both elements, so
\* sorting two or more elements of which one is null throws a TypeError.
OrganizeSort ==
  /\ pc = "organize"
  /\ IF textDetails = None \/ Len(textDetails[1]) = 0
     THEN /\ organized' = Some(<< >>)
          /\ pc' = "organized"
          /\ UNCHANGED <<textDetails, sortedTexts, error>>
     ELSE IF Len(textDetails[1]) >= 2
             /\ \E k \in 1..Len(textDetails[1]) : textDetails[1][k] = None
     THEN /\ pc' = "organize_threw"
          /\ error' = Some(TypeError)
          /\ UNCHANGED <<organized, textDetails, sortedTexts>>
     ELSE /\ LET after == IF Len(textDetails[1]) = 1
                          THEN [argument |-> textDetails[1], sortedTexts |-> <<1>>]
                          ELSE AfterYSort(textDetails[1])
             IN /\ textDetails' = Some(after.argument)
                /\ sortedTexts' = after.sortedTexts
          /\ pc' = "group"
          /\ UNCHANGED <<organized, error>>
  /\ UNCHANGED <<entry, detections, fullText, idx, lines, result>>
  /\ UNCHANGED outerVars
  /\ UNCHANGED concVars

\* One iteration of `for (const text of sortedTexts)`; reading
\* text.boundingBox of a null element throws a TypeError.
OrganizeGroup ==
  /\ pc = "group"
  /\ idx <= Len(sortedTexts)
  /\ LET r == sortedTexts[idx]
     IN IF textDetails[1][r] = None
        THEN /\ pc' = "organize_threw"
             /\ error' = Some(TypeError)
             /\ UNCHANGED <<idx, lines>>
        ELSE /\ lines' = GroupStep(lines, r, textDetails[1][r][1])
             /\ idx' = idx + 1
             /\ UNCHANGED <<pc, error>>
  /\ UNCHANGED <<entry, detections, fullText, textDetails, sortedTexts,
                 organized, result>>
  /\ UNCHANGED outerVars
  /\ UNCHANGED concVars

\* lines.forEach: the x sort of every line and its rebuilt text.
OrganizeSortWords ==
  /\ pc = "group"
  /\ idx > Len(sortedTexts)
  /\ lines' = [n \in 1..Len(lines) |-> SortLineWords(lines[n], textDetails[1])]
  /\ pc' = "map"
  /\ UNCHANGED <<entry, detections, error, fullText, textDetails, sortedTexts,
                 idx, organized, result>>
  /\ UNCHANGED outerVars
  /\ UNCHANGED concVars

\* return lines.map(...)
OrganizeReturn ==
  /\ pc = "map"
  /\ organized' =
       Some([n \in 1..Len(lines) |-> OutputLine(lines[n], textDetails[1])])
  /\ pc' = "organized"
  /\ UNCHANGED <<entry, detections, error, fullText, textDetails, sortedTexts,
                 idx, lines, result>>
  /\ UNCHANGED outerVars
  /\ UNCHANGED concVars

\* ------------------------------------------------------------- detectText
\* NoTextResult reporting success.
NoTextResultSuccess ==
  [success |-> TRUE, message |-> "no text found", text |-> << >>,
   details |-> << >>]

\* The result returned when the provider found no annotations.
NoTextResult ==
  [success |-> FALSE, message |-> "no text found", text |-> << >>,
   details |-> << >>]

\* FailureResult reporting success.
FailureResultSuccess(e) ==
  [success |-> TRUE, message |-> <<"error: ", e.message>>, text |-> << >>,
   details |-> << >>, error |-> [code |-> e.code, message |-> e.message]]

\* The result returned by the catch block for the error e.
FailureResult(e) ==
  [success |-> FALSE, message |-> <<"error: ", e.message>>, text |-> << >>,
   details |-> << >>, error |-> [code |-> e.code, message |-> e.message]]

\* !detections || detections.length === 0
NoDetections(d) == IF d = None THEN TRUE ELSE Len(d[1]) = 0

\* detections[0].description || ''
FullText(ds) ==
  IF ds[1].description = None THEN << >> ELSE ds[1].description[1]

\* TextDetails without the slice(1): the first annotation is kept.
TextDetailsKeepsFirst(ds) == [k \in 1..Len(ds) |-> Some(Detail(ds[k]))]

\* detections.slice(1).map(...)
TextDetails(ds) == [k \in 1..Len(ds) - 1 |-> Some(Detail(ds[k + 1]))]

\* The result returned on success (metadata.timestamp, the wall clock, is
\* left out).
SuccessResult(ft, details, organizedByLines) ==
  [success |-> TRUE, message |-> "text detected", text |-> Trim(ft),
   wordCount |-> SplitCount(Trim(ft)),
   lines |-> organizedByLines,
   details |-> details,
   metadata |-> [totalWords |-> Len(details),
                 totalLines |-> Len(organizedByLines)]]

\* The image inputs of a direct call: a file path and a buffer.
ImageInputs == {[path |-> "image.jpg"], [buffer |-> <<"AAAA">>]}

\* A caller invokes detectText(imageInput) directly.
CallDetect ==
  /\ pc = "idle"
  /\ entry' = "detect"
  /\ \E i \in ImageInputs : imageInput' = Some(i)
  /\ pc' = "detect"
  /\ UNCHANGED <<result, coreVars, credentials, fullTextAnnotation, httpVars>>
  /\ UNCHANGED concVars

\* The provider call resolves with some result.textAnnotations.
ProviderResolve ==
  /\ pc = "await_provider"
  /\ \E d \in (IF route = "none" THEN ProviderResults
                ELSE RoutedProviderResults) : detections' = d
  /\ pc' = "resolved"
  /\ UNCHANGED <<entry, error, fullText, textDetails, sortedTexts, idx, lines,
                 organized, result>>
  /\ UNCHANGED outerVars
  /\ UNCHANGED concVars

\* The provider call rejects; control passes to the catch block.
ProviderReject ==
  /\ pc = "await_provider"
  /\ \E e \in ProviderErrors : error' = Some(e)
  /\ pc' = "detect_threw"
  /\ UNCHANGED <<entry, detections, fullText, textDetails, sortedTexts, idx,
                 lines, organized, result>>
  /\ UNCHANGED outerVars
  /\ UNCHANGED concVars

\* `if (!detections || detections.length === 0) return {...}`
DetectNoText ==
  /\ pc = "resolved"
  /\ NoDetections(detections)
  /\ result' = Some(NoTextResult)
  /\ pc' = "detected"
  /\ UNCHANGED <<entry, detections, error, fullText, textDetails, sortedTexts,
                 idx, lines, organized>>
  /\ UNCHANGED outerVars
  /\ UNCHANGED concVars

\* fullText, textDetails and the call this.organizeTextByLines(textDetails)
DetectMap ==
  /\ pc = "resolved"
  /\ ~NoDetections(detections)
  /\ fullText' = FullText(detections[1])
  /\ textDetails' = Some(TextDetails(detections[1]))
  /\ pc' = "organize"
  /\ UNCHANGED <<entry, detections, error, sortedTexts, idx, lines, organized,
                 result>>
  /\ UNCHANGED outerVars
  /\ UNCHANGED concVars

\* organizeTextByLines returned to detectText, which builds its result.
DetectReturn ==
  /\ pc = "organized"
  /\ entry = "detect"
  /\ result' = Some(SuccessResult(fullText, textDetails[1], organized[1]))
  /\ pc' = "detected"
  /\ UNCHANGED <<entry, detections, error, fullText, textDetails, sortedTexts,
                 idx, lines, organized>>
  /\ UNCHANGED outerVars
  /\ UNCHANGED concVars

\* The catch block of detectText.
DetectCatch ==
  /\ pc \in {"detect_threw", "organize_threw"}
  /\ entry = "detect"
  /\ result' = Some(FailureResult(error[1]))
  /\ pc' = "detected"
  /\ UNCHANGED <<entry, detections, error, fullText, textDetails, sortedTexts,
                 idx, lines, organized>>
  /\ UNCHANGED outerVars
  /\ UNCHANGED concVars

\* ---------------------------------------------------------------- mock mode
\* One element of the mock word list (confidence in hundredths).
MockDetail(t, c) ==
  Some([text |-> Some(t), confidence |-> Some(c),
        boundingBox |-> Some([vertices |-> Some(<< >>)])])

\* MockResult with a lines field.
MockResultWithLines ==
  [success |-> TRUE, message |-> "text detected (mock mode)",
   text |-> <<"M", "o", "c", "k", " ", "O", "C", "R">>,
   wordCount |-> 20, lines |-> << >>, details |-> << >>,
   metadata |-> [totalWords |-> 3, mode |-> "mock"]]

\* The result detectText returns when no credentials are configured
\* (metadata.timestamp, the wall clock, is left out; the text is abridged).
MockResult ==
  [success |-> TRUE, message |-> "text detected (mock mode)",
   text |-> <<"M", "o", "c", "k", " ", "O", "C", "R">>,
   wordCount |-> 20,
   details |-> <<MockDetail(<<"M", "o", "c", "k">>, 95),
                 MockDetail(<<"O", "C", "R">>, 98),
                 MockDetail(<<"R", "e", "s", "u", "l", "t">>, 92)>>,
   metadata |-> [totalWords |-> 3, mode |-> "mock"]]

\* `if (!process.env.GOOGLE_CLOUD_API_KEY && !process.env.
\* GOOGLE_APPLICATION_CREDENTIALS) return {...mock...}`
DetectMock ==
  /\ pc = "detect"
  /\ ~credentials
  /\ result' = Some(MockResult)
  /\ pc' = "detected"
  /\ UNCHANGED <<entry, coreVars, outerVars>>
  /\ UNCHANGED concVars

\* With credentials the provider call client.textDetection is issued and
\* awaited.
DetectProvider ==
  /\ pc = "detect"
  /\ credentials
  /\ pc' = "await_provider"
  /\ UNCHANGED <<entry, result, coreVars, outerVars>>
  /\ UNCHANGED concVars

\* -------------------------------------------------------- detectDocumentText
\* One page of a fullTextAnnotation.
Page(w, h, blocks, confidence) ==
  [width |-> w, height |-> h, blocks |-> blocks, confidence |-> confidence]

\* result.fullTextAnnotation of a resolved document call: absent, a document
\* with two pages (one without confidence), one without pages, and one
\* without text.
DocumentResults ==
  {None,
   Some([text |-> Some(<<" ", "d", "o", "c", " ">>),
         pages |-> <<Page(100, 200, <<"b1", "b2">>, Some(97)),
                     Page(100, 200, << >>, None)>>]),
   Some([text |-> Some(<<"d", "o", "c">>), pages |-> << >>]),
   Some([text |-> None, pages |-> << >>])}

\* The TypeError thrown by `client.documentTextDetection` when client is
\* undefined.
ClientUndefined ==
  [code |-> None, message |-> "cannot read properties of undefined"]

\* The result returned when the provider found no fullTextAnnotation.
NoDocumentResult ==
  [success |-> FALSE, message |-> "no text in document", text |-> << >>,
   pages |-> << >>]

\* fullTextAnnotation.pages.map(page => ({...}))
Pages(fta) ==
  [k \in 1..Len(fta.pages) |->
     [width |-> fta.pages[k].width, height |-> fta.pages[k].height,
      blocks |-> Len(fta.pages[k].blocks),
      confidence |-> OrElse(fta.pages[k].confidence, 0)]]

\* The result returned for a document (metadata.timestamp left out).
DocumentResult(fta) ==
  [success |-> TRUE, message |-> "document read", text |-> Trim(fta.text[1]),
   pages |-> Pages(fta),
   metadata |-> [totalPages |-> Len(fta.pages)]]

\* The result returned by the catch block of detectDocumentText.
DocumentFailure(e) ==
  [success |-> FALSE, message |-> <<"document error: ", e.message>>,
   text |-> << >>, pages |-> << >>,
   error |-> [code |-> e.code, message |-> e.message]]

\* A caller invokes detectDocumentText(imageInput).
CallDocument ==
  /\ pc = "idle"
  /\ entry' = "document"
  /\ \E i \in ImageInputs : imageInput' = Some(i)
  /\ pc' = "document"
  /\ UNCHANGED <<result, coreVars, credentials, fullTextAnnotation, httpVars>>
  /\ UNCHANGED concVars

\* client is defined: client.documentTextDetection is issued and awaited.
DocumentProvider ==
  /\ pc = "document"
  /\ credentials
  /\ pc' = "await_document"
  /\ UNCHANGED <<entry, result, coreVars, outerVars>>
  /\ UNCHANGED concVars

\* client is undefined: the call expression throws inside the try block.
DocumentNoClient ==
  /\ pc = "document"
  /\ ~credentials
  /\ error' = Some(ClientUndefined)
  /\ pc' = "document_threw"
  /\ UNCHANGED <<entry, result, detections, fullText, textDetails,
                 sortedTexts, idx, lines, organized, outerVars>>
  /\ UNCHANGED concVars

\* The document call resolves with some result.fullTextAnnotation.
DocumentResolve ==
  /\ pc = "await_document"
  /\ \E a \in DocumentResults : fullTextAnnotation' = a
  /\ pc' = "document_resolved"
  /\ UNCHANGED <<entry, result, coreVars, credentials, imageInput, httpVars>>
  /\ UNCHANGED concVars

\* The document call rejects; control passes to the catch block.
DocumentReject ==
  /\ pc = "await_document"
  /\ \E e \in ProviderErrors : error' = Some(e)
  /\ pc' = "document_threw"
  /\ UNCHANGED <<entry, result, detections, fullText, textDetails,
                 sortedTexts, idx, lines, organized, outerVars>>
  /\ UNCHANGED concVars

\* The rest of the try block: no annotation, a text that cannot be trimmed
\* (TypeError), or the document result.
DocumentReturn ==
  /\ pc = "document_resolved"
  /\ IF fullTextAnnotation = None
       THEN result' = Some(NoDocumentResult) /\ pc' = "documented"
                                           /\ error' = error
       ELSE IF fullTextAnnotation[1].text = None
         THEN error' = Some(ClientUndefined) /\ pc' = "document_threw"
                                            /\ result' = result
         ELSE result' = Some(DocumentResult(fullTextAnnotation[1]))
                /\ pc' = "documented" /\ error' = error
  /\ UNCHANGED <<entry, detections, fullText, textDetails, sortedTexts, idx,
                 lines, organized, outerVars>>
  /\ UNCHANGED concVars

\* The catch block of detectDocumentText.
DocumentCatch ==
  /\ pc = "document_threw"
  /\ result' = Some(DocumentFailure(error[1]))
  /\ pc' = "documented"
  /\ UNCHANGED <<entry, coreVars, outerVars>>
  /\ UNCHANGED concVars

\* ------------------------------------------------------ requests and routes
\* JavaScript truthiness of an optional string: undefined and '' are falsy.
Truthy(v) == IF v = None THEN FALSE ELSE v[1] # ""

\* JavaScript `a || b` for optional strings.
Either(a, b) == IF Truthy(a) THEN a ELSE b

UploadRoutes == {"POST /api/v1/ocr/text", "POST /ocr/text"}

Routes ==
  {"GET /", "POST /api/v1/", "POST /api/v1/ocr/url", "POST /api/v1/ocr/base64"}
    \cup UploadRoutes

\* A request that carries nothing.
EmptyRequest ==
  [query |-> None, imageUrl |-> None, url |-> None, imageData |-> None,
   base64Image |-> None, authorization |-> None, header |-> None,
   upload |-> "none"]

\* Base64 image data: a data URL, a bare base64 string, and a JSON number.
DataUrl == [string |-> <<"data:image/png;base64,", "AAAA">>]
Base64 == [string |-> <<"AAAA">>]
NotAString == [number |-> 7]

\* What multer makes of the multipart field `image`: no file, an image, a
\* file of another type, an image above the size limit.
Uploads == {"none", "image", "not_image", "too_large"}

\* The requests a client sends to each route.
Requests(r) ==
  CASE r = "GET /" ->
         {[EmptyRequest EXCEPT !.query = q, !.header = h] :
            q \in {None, Some(""), Some("http://q")},
            h \in {None, Some("Bearer h")}}
    [] r = "POST /api/v1/" ->
         {[EmptyRequest EXCEPT !.imageUrl = i, !.url = u, !.imageData = d,
                               !.base64Image = b, !.authorization = a,
                               !.header = h] :
            i \in {None, Some("http://i")}, u \in {None, Some("http://u")},
            d \in {None, Some(DataUrl)}, b \in {None, Some(Base64)},
            a \in {None, Some("Bearer b")}, h \in {None, Some("Bearer h")}}
    [] r = "POST /api/v1/ocr/url" ->
         {[EmptyRequest EXCEPT !.imageUrl = i, !.url = u, !.authorization = a,
                               !.header = h] :
            i \in {None, Some("http://i")}, u \in {None, Some("http://u")},
            a \in {None, Some("Bearer b")}, h \in {None, Some("Bearer h")}}
    [] r = "POST /api/v1/ocr/base64" ->
         {[EmptyRequest EXCEPT !.imageData = d] :
            d \in {None, Some(DataUrl), Some(Base64), Some(NotAString)}}
    [] r \in UploadRoutes ->
         {[EmptyRequest EXCEPT !.upload = f] : f \in Uploads}

\* `const targetUrl = imageUrl || url` (GET /: req.query.url)
TargetUrl(r, q) == IF r = "GET /" THEN q.query ELSE Either(q.imageUrl, q.url)

\* `const authHeader = authorization || req.headers.authorization`
\* (GET /: req.headers.authorization)
AuthHeader(r, q) ==
  IF r = "GET /" THEN q.header ELSE Either(q.authorization, q.header)

\* The options object a handler builds: headers.Authorization when
\* authHeader is truthy, nothing otherwise.
Options(r, q) ==
  IF Truthy(AuthHeader(r, q))
    THEN [headers |-> Some([Authorization |-> AuthHeader(r, q)])]
    ELSE [headers |-> None]

\* `imageData || base64Image` (POST /api/v1/ocr/base64: imageData); the
\* values are objects here, so only undefined is falsy.
Base64Data(r, q) ==
  IF r = "POST /api/v1/" /\ q.imageData = None THEN q.base64Image
  ELSE q.imageData

\* The service function a handler calls for a request, "none" when the
\* handler answers without calling one.
Dispatch(r, q) ==
  CASE r = "GET /" -> IF Truthy(q.query) THEN "url" ELSE "none"
    [] r = "POST /api/v1/" ->
         IF Truthy(TargetUrl(r, q)) THEN "url"
         ELSE IF Base64Data(r, q) # None THEN "base64" ELSE "none"
    [] r = "POST /api/v1/ocr/url" ->
         IF Truthy(TargetUrl(r, q)) THEN "url" ELSE "none"
    [] r = "POST /api/v1/ocr/base64" ->
         IF q.imageData # None THEN "base64" ELSE "none"
    [] r \in UploadRoutes -> IF q.upload = "image" THEN "detect" ELSE "none"

\* `"Error: " + message`
ErrorText(m) == <<"Error: ", m>>

\* The response of a handler that calls no service function.
DirectResponse(r) ==
  CASE r = "GET /" ->
         [status |-> 200, body |-> [service |-> "TEXTBot OCR API"]]
    [] r = "POST /api/v1/" ->
         [status |-> 400,
          body |-> [text |-> ErrorText("Image data is required")]]
    [] r = "POST /api/v1/ocr/url" ->
         [status |-> 400,
          body |-> [text |-> ErrorText("Image URL is required")]]
    [] r = "POST /api/v1/ocr/base64" ->
         [status |-> 400,
          body |-> [text |-> ErrorText("Base64 image data is required")]]
    [] r = "POST /api/v1/ocr/text" ->
         [status |-> 400,
          body |-> [text |-> ErrorText("No image file provided")]]
    [] r = "POST /ocr/text" ->
         [status |-> 400,
          body |-> [success |-> FALSE, message |-> "upload an image file",
                    error |-> "No image file provided"]]

\* The response of the error-handling middleware to an upload multer
\* rejected: 400 for LIMIT_FILE_SIZE, 500 for the fileFilter's error.
ErrorResponse(upload) ==
  IF upload = "too_large"
    THEN [status |-> 400,
          body |-> [success |-> FALSE, message |-> "file too large",
                    error |-> "File too large"]]
    ELSE [status |-> 500,
          body |-> [success |-> FALSE, message |-> "internal server error",
                    error |-> "Only image files are allowed!"]]

\* ResultResponse answering 200 {text} whatever the result.
ResultResponseAlwaysOk(r, res) == [status |-> 200, body |-> [text |-> res.text]]

\* The response a handler builds from the service result res: the v1 routes
\* and GET / answer {text}, POST /ocr/text answers {...result, file, api}.
ResultResponse(r, res) ==
  IF r = "POST /ocr/text"
    THEN [status |-> 200,
          body |-> [file |-> "image", api |-> "/ocr/text"] @@ res]
    ELSE IF res.success
      THEN [status |-> 200, body |-> [text |-> res.text]]
      ELSE [status |-> 400, body |-> [text |-> ErrorText(res.message)]]

\* ------------------------------------------------ detectTextFromUrl, Base64
\* The request `fetch(imageUrl)` issues: the function takes imageUrl alone,
\* a second argument is not read, and fetch is given no init.
FetchRequest(imageUrl, opts) == [url |-> imageUrl, authorization |-> None]

\* The errors the download raises: a response that is not ok, and a
\* rejected fetch.
FetchErrors ==
  {[message |-> "Failed to fetch image: 404"], [message |-> "fetch failed"]}

\* The result returned by the catch block of detectTextFromUrl.
UrlFailure(e) ==
  [success |-> FALSE, message |-> <<"download failed: ", e.message>>,
   text |-> << >>, details |-> << >>]

\* The result returned by the catch block of detectTextFromBase64.
Base64Failure(e) ==
  [success |-> FALSE, message |-> <<"cannot process image: ", e.message>>,
   text |-> << >>, details |-> << >>]

\* base64String.replace(/^data:image\/[a-z]+;base64,/, '')
StripDataUrl(s) ==
  IF Len(s) > 1 /\ s[1] = "data:image/png;base64," THEN Tail(s) ELSE s

\* A request arrives at a route.
Receive ==
  /\ pc = "idle"
  /\ \E r \in Routes : \E q \in Requests(r) : route' = r /\ request' = Some(q)
  /\ pc' = "received"
  /\ UNCHANGED <<entry, result, coreVars, credentials, imageInput,
                 fullTextAnnotation, via, args, download, response>>
  /\ UNCHANGED concVars

\* upload.single('image') rejects the file; the error-handling middleware
\* answers and the handler does not run.
UploadError ==
  /\ pc = "received"
  /\ route \in UploadRoutes
  /\ request[1].upload \in {"not_image", "too_large"}
  /\ response' = Some(ErrorResponse(request[1].upload))
  /\ pc' = "responded"
  /\ UNCHANGED <<entry, result, coreVars, credentials, imageInput,
                 fullTextAnnotation, route, request, via, args, download>>
  /\ UNCHANGED concVars

\* The handler runs (multer let the request through).
Handled ==
  /\ pc = "received"
  /\ ~(route \in UploadRoutes /\ request[1].upload \in {"not_image", "too_large"})

\* The handler answers without calling a service function.
HandleDirect ==
  /\ Handled
  /\ Dispatch(route, request[1]) = "none"
  /\ response' = Some(DirectResponse(route))
  /\ pc' = "responded"
  /\ UNCHANGED <<entry, result, coreVars, credentials, imageInput,
                 fullTextAnnotation, route, request, via, args, download>>
  /\ UNCHANGED concVars

\* `await OCRService.detectText(req.file.buffer)`
HandleUpload ==
  /\ Handled
  /\ Dispatch(route, request[1]) = "detect"
  /\ entry' = "detect"
  /\ imageInput' = Some([buffer |-> <<"upload">>])
  /\ pc' = "detect"
  /\ UNCHANGED <<result, coreVars, credentials, fullTextAnnotation, httpVars>>
  /\ UNCHANGED concVars

\* `await OCRService.detectTextFromUrl(targetUrl, options)`
HandleUrl ==
  /\ Handled
  /\ Dispatch(route, request[1]) = "url"
  /\ via' = "url"
  /\ args' = Some([imageUrl |-> TargetUrl(route, request[1])[1],
                   options |-> Options(route, request[1])])
  /\ pc' = "url"
  /\ UNCHANGED <<entry, result, coreVars, credentials, imageInput,
                 fullTextAnnotation, route, request, download, response>>
  /\ UNCHANGED concVars

\* `await OCRService.detectTextFromBase64(base64Data)`
HandleBase64 ==
  /\ Handled
  /\ Dispatch(route, request[1]) = "base64"
  /\ via' = "base64"
  /\ args' = Some([base64String |-> Base64Data(route, request[1])[1]])
  /\ pc' = "base64"
  /\ UNCHANGED <<entry, result, coreVars, credentials, imageInput,
                 fullTextAnnotation, route, request, download, response>>
  /\ UNCHANGED concVars

\* detectTextFromUrl issues the download and awaits it.
UrlFetch ==
  /\ pc = "url"
  /\ download' = Some(FetchRequest(args[1].imageUrl, args[1].options))
  /\ pc' = "await_fetch"
  /\ UNCHANGED <<entry, result, coreVars, credentials, imageInput,
                 fullTextAnnotation, route, request, via, args, response>>
  /\ UNCHANGED concVars

\* The download succeeds: `return await this.detectText(imageBuffer)`
FetchOk ==
  /\ pc = "await_fetch"
  /\ entry' = "detect"
  /\ imageInput' = Some([buffer |-> <<"download", download[1].url>>])
  /\ pc' = "detect"
  /\ UNCHANGED <<result, coreVars, credentials, fullTextAnnotation, httpVars>>
  /\ UNCHANGED concVars

\* The download fails: the catch block of detectTextFromUrl.
FetchFail ==
  /\ pc = "await_fetch"
  /\ \E e \in FetchErrors : result' = Some(UrlFailure(e))
  /\ pc' = "wrapped"
  /\ UNCHANGED <<entry, coreVars, outerVars>>
  /\ UNCHANGED concVars

\* detectTextFromBase64: a string is stripped, decoded and passed to
\* detectText; any other value has no replace method (TypeError, caught).
Base64Decode ==
  /\ pc = "base64"
  /\ IF "string" \in DOMAIN args[1].base64String
       THEN /\ entry' = "detect"
            /\ imageInput' =
                 Some([buffer |-> StripDataUrl(args[1].base64String.string)])
            /\ pc' = "detect"
            /\ result' = result
       ELSE /\ result' = Some(Base64Failure(
                           [message |-> "base64String.replace is not a function"]))
            /\ pc' = "wrapped"
            /\ UNCHANGED <<entry, imageInput>>
  /\ UNCHANGED <<coreVars, credentials, fullTextAnnotation, httpVars>>
  /\ UNCHANGED concVars

\* The awaited service call returned; the handler answers.
Respond ==
  /\ pc \in {"detected", "wrapped"}
  /\ route # "none"
  /\ response' = Some(ResultResponse(route, result[1]))
  /\ pc' = "responded"
  /\ UNCHANGED <<entry, result, coreVars, credentials, imageInput,
                 fullTextAnnotation, route, request, via, args, download>>
  /\ UNCHANGED concVars

Next ==
  \/ CallOrganize
  \/ OrganizeSort
  \/ OrganizeGroup
  \/ OrganizeSortWords
  \/ OrganizeReturn
  \/ CallDetect
  \/ ProviderResolve
  \/ ProviderReject
  \/ DetectNoText
  \/ DetectMap
  \/ DetectReturn
  \/ DetectCatch
  \/ DetectMock
  \/ DetectProvider
  \/ CallDocument
  \/ DocumentProvider
  \/ DocumentNoClient
  \/ DocumentResolve
  \/ DocumentReject
  \/ DocumentReturn
  \/ DocumentCatch
  \/ Receive
  \/ UploadError
  \/ HandleDirect
  \/ HandleUpload
  \/ HandleUrl
  \/ HandleBase64
  \/ UrlFetch
  \/ FetchOk
  \/ FetchFail
  \/ Base64Decode
  \/ Respond

Spec == Init /\ [][Next]_vars

\* ---------------------------------------- organizeTextByLines as a function
\* The grouping loop over the references sorted[k..], starting from ls.
RECURSIVE GroupFrom(_, _, _, _)
GroupFrom(ls, sorted, k, ws) ==
  IF k > Len(sorted) THEN ls
  ELSE GroupFrom(GroupStep(ls, sorted[k], ws[sorted[k]][1]), sorted, k + 1, ws)

\* The value organizeTextByLines returns for a non-empty list ws without
\* null entries.
OrganizedLines(ws) ==
  LET grouped == GroupFrom(<< >>, SortedTexts(ws), 1, ws)
  IN [n \in 1..Len(grouped) |-> OutputLine(SortLineWords(grouped[n], ws), ws)]

\* ------------------------------------------------------ concurrent requests
\* Each invocation of a handler or service function has its own bindings
\* (const / let / parameters): request r's are in frame r.
SlotShared(r) == 1

Slot(r) == r

\* The first annotation of the provider's answers below.
WholeText == Annotation(<<"B", " ", "A">>, None, Poly(10, 10, 58, 20))

\* What the provider answers for an image: annotations or a rejection.
Ocr(image) ==
  CASE image = "img1" -> [error |-> None,
                          detections |-> Some(<<WholeText, AnnA, AnnB>>)]
    [] image = "img2" -> [error |-> Some([code |-> Some(7),
                                          message |-> "permission denied"]),
                          detections |-> None]
    [] image = "img3" -> [error |-> None,
                          detections |-> Some(<<WholeText, AnnC, AnnD, AnnB>>)]
    [] OTHER -> [error |-> None, detections |-> None]

\* What a download of a URL yields: an image or an error.
Web(url) ==
  CASE url = "http://a" -> [error |-> None, image |-> Some("img3")]
    [] url = "http://c" -> [error |-> None, image |-> Some("img4")]
    [] OTHER -> [error |-> Some([message |-> "Failed to fetch image: 404"]),
                 image |-> None]

\* The requests clients send: uploads and URLs.
ConcInputs ==
  {[route |-> "POST /api/v1/ocr/text", url |-> None, image |-> Some(i)] :
     i \in {"img1", "img2"}}
  \cup {[route |-> "POST /ocr/text", url |-> None, image |-> Some("img1")]}
  \cup {[route |-> "POST /api/v1/ocr/url", url |-> Some(u), image |-> None] :
          u \in {"http://a", "http://b", "http://c"}}

\* The try block of detectText after the provider call resolved with the
\* annotations d.
DetectResult(d) ==
  IF NoDetections(d) THEN NoTextResult
  ELSE LET details == TextDetails(d[1])
       IN SuccessResult(FullText(d[1]), details,
                        IF Len(details) = 0 THEN << >>
                        ELSE OrganizedLines(details))

\* detectText from the settled provider call to its return value.
Settled(o) ==
  IF o.error # None THEN FailureResult(o.error[1])
  ELSE DetectResult(o.detections)

\* The result a request gets when it is the only one processed.
Alone(in) ==
  IF in.url # None /\ Web(in.url[1]).error # None
    THEN UrlFailure(Web(in.url[1]).error[1])
  ELSE IF ~credentials THEN MockResult
  ELSE Settled(Ocr(IF in.url # None THEN Web(in.url[1]).image[1]
                   ELSE in.image[1]))

\* detectText is entered with frame f's imageInput: the frame and the
\* promise after its synchronous part.
EnterDetect(f) ==
  IF credentials
    THEN [frame |-> f, await |-> Await("ocr", f.imageInput)]
    ELSE [frame |-> [f EXCEPT !.result = Some(MockResult)],
          await |-> Await("return", None)]

\* Request r arrives; its handler runs to its first await.
ConcReceive(r) ==
  /\ pending[r].op = "idle"
  /\ \E in \in ConcInputs :
       LET f == [NoFrame EXCEPT !.res = r, !.route = in.route,
                                !.imageUrl = in.url, !.imageInput = in.image]
           next == IF in.url # None
                     THEN [frame |-> f, await |-> Await("fetch", f.imageUrl)]
                     ELSE EnterDetect(f)
       IN /\ frames' = [frames EXCEPT ![Slot(r)] = next.frame]
          /\ pending' = [pending EXCEPT ![r] = next.await]
          /\ exchange' = [exchange EXCEPT ![r].request = Some(in)]
  /\ UNCHANGED <<credentials, seqVars>>

\* The download of request r settles; detectTextFromUrl continues.
ConcFetched(r) ==
  /\ pending[r].op = "fetch"
  /\ LET w == Web(pending[r].arg[1])
         f == frames[Slot(r)]
         next == IF w.error # None
                   THEN [frame |-> [f EXCEPT !.result =
                                      Some(UrlFailure(w.error[1]))],
                         await |-> Await("return", None)]
                   ELSE EnterDetect([f EXCEPT !.imageInput = w.image])
     IN /\ frames' = [frames EXCEPT ![Slot(r)] = next.frame]
        /\ pending' = [pending EXCEPT ![r] = next.await]
  /\ UNCHANGED <<exchange, credentials, seqVars>>

\* The provider call of request r settles; detectText runs to its return.
ConcProvided(r) ==
  /\ pending[r].op = "ocr"
  /\ frames' = [frames EXCEPT ![Slot(r)].result =
                  Some(Settled(Ocr(pending[r].arg[1])))]
  /\ pending' = [pending EXCEPT ![r] = Await("return", None)]
  /\ UNCHANGED <<exchange, credentials, seqVars>>

\* The handler of request r resumes after its await and answers on its res.
ConcRespond(r) ==
  /\ pending[r].op = "return"
  /\ LET f == frames[Slot(r)]
     IN exchange' = [exchange EXCEPT ![f.res].responses =
                       Append(@, ResultResponse(f.route, f.result[1]))]
  /\ pending' = [pending EXCEPT ![r] = Await("done", None)]
  /\ UNCHANGED <<frames, credentials, seqVars>>

ConcNext ==
  \E r \in Clients :
    \/ ConcReceive(r)
    \/ ConcFetched(r)
    \/ ConcProvided(r)
    \/ ConcRespond(r)

Concurrent == Init /\ [][ConcNext]_vars

\* ------------------------------------------------------ notions of the claims
\* The set of elements of a sequence.
Range(q) == {q[k] : k \in 1..Len(q)}

\* organizeTextByLines has returned for a non-empty argument.
Returned ==
  /\ organized # None
  /\ textDetails # None
  /\ Len(textDetails[1]) > 0

\* The word a reference denotes.
WordAt(r) == textDetails[1][r][1]

\* The position of reference r in the y-sorted order.
SortedPos(r) == CHOOSE p \in 1..Len(sortedTexts) : sortedTexts[p] = r

\* The lines that hold reference r.
LinesOf(r) == {n \in 1..Len(lines) : r \in Range(lines[n].words)}

\* The word that opened line n: its first word in y-sorted order.
Opener(n) ==
  CHOOSE r \in Range(lines[n].words) :
    \A q \in Range(lines[n].words) : SortedPos(r) <= SortedPos(q)

OpenerY(n) == TopLeftY(WordAt(Opener(n)))

RECURSIVE SumWordCount(_)
SumWordCount(out) ==
  IF out = << >> THEN 0 ELSE Head(out).wordCount + SumWordCount(Tail(out))

\* The returned lines hold, position by position, the output form of the
\* words the internal lines refer to.
OutputMatchesLines ==
  /\ Len(organized[1]) = Len(lines)
  /\ \A n \in 1..Len(lines) :
       /\ Len(organized[1][n].words) = Len(lines[n].words)
       /\ \A k \in 1..Len(lines[n].words) :
            organized[1][n].words[k] = OutputWord(WordAt(lines[n].words[k]))

\* C1: for a non-empty word list every input word is in exactly one output
\* line, exactly once, and the lines' wordCount add up to the number of
\* input words.
C1_Partition ==
  Returned =>
    /\ OutputMatchesLines
    /\ \A r \in 1..Len(textDetails[1]) :
         Cardinality({nk \in {<<n, k>> : n \in 1..Len(lines),
                                            k \in 1..Len(textDetails[1])} :
                        /\ nk[2] <= Len(lines[nk[1]].words)
                        /\ lines[nk[1]].words[nk[2]] = r}) = 1
    /\ SumWordCount(organized[1]) = Len(textDetails[1])

C1_Witness ==
  /\ Returned
  /\ Len(textDetails[1]) = 3
  /\ Len(organized[1]) = 2

\* C2: every word of a line is within the threshold of the word that opened
\* the line; a word placed in another line than its predecessor in y-sorted
\* order is further than the threshold from the word that opened the
\* predecessor's line; and the words (A, y=10, x=50), (B, y=12, x=10),
\* (C, y=60, x=5) give the lines "B A" and "C".
ExampleWords == <<Some(Detail(AnnA)), Some(Detail(AnnB)), Some(Detail(AnnC))>>

C2_Threshold ==
  Returned =>
    /\ \A n \in 1..Len(lines) : \A r \in Range(lines[n].words) :
         Abs(TopLeftY(WordAt(r)) - OpenerY(n)) <= 20
    /\ \A p \in 2..Len(sortedTexts) :
         LET r == sortedTexts[p]
             q == sortedTexts[p - 1]
         IN LinesOf(r) # LinesOf(q) =>
              \A n \in LinesOf(q) : Abs(TopLeftY(WordAt(r)) - OpenerY(n)) > 20
    /\ textDetails[1] = ExampleWords =>
         /\ Len(organized[1]) = 2
         /\ organized[1][1].lineNumber = 1
         /\ organized[1][1].text = <<"B", " ", "A">>
         /\ organized[1][2].lineNumber = 2
         /\ organized[1][2].text = <<"C">>

C2_Witness ==
  /\ Returned
  /\ textDetails[1] = ExampleWords
  /\ organized[1][1].text = <<"B", " ", "A">>

\* C3: within every output line the words' x are non-decreasing, and the
\* line's text is the words' texts joined by single spaces in that order.
C3_XOrder ==
  Returned =>
    \A n \in 1..Len(organized[1]) :
      LET ln == organized[1][n]
      IN /\ \A k \in 1..Len(ln.words) - 1 :
              ln.words[k].position.x <= ln.words[k + 1].position.x
         /\ ln.text = Join([k \in 1..Len(ln.words) |-> ln.words[k].text])

C3_Witness ==
  /\ Returned
  /\ \E n \in 1..Len(organized[1]) :
       /\ Len(organized[1][n].words) = 3
       /\ organized[1][n].words[1].position.x < organized[1][n].words[3].position.x
       /\ lines[n].words # <<1, 2, 3>>

\* C4: the lineNumber values of the returned lines, in output order, are
\* 1, 2, ..., n.
C4_LineNumbers ==
  organized # None =>
    \A n \in 1..Len(organized[1]) : organized[1][n].lineNumber = n

C4_Witness ==
  /\ organized # None
  /\ Len(organized[1]) = 3

\* The list ws with its elements rearranged by the permutation f.
Permuted(ws, f) == [k \in 1..Len(ws) |-> ws[f[k]]]

\* C5: the output does not depend on the order of the input: every
\* permutation of the same words, the one sorted by y and then x included,
\* gives the identical list of lines (contents, word order, line order and
\* bounding boxes).
C5_OrderIndependent ==
  Returned =>
    \A f \in Permutations(1..Len(textDetails[1])) :
      OrganizedLines(Permuted(textDetails[1], f)) = organized[1]

\* C6: the bounding box of every line covers every member word: its
\* top-left corner and, where present, its top-right x and bottom-right y.
C6_BoundingBoxCovers ==
  Returned =>
    \A n \in 1..Len(lines) : \A r \in Range(lines[n].words) :
      LET w == WordAt(r)
          bb == organized[1][n].boundingBox
      IN /\ bb.minX <= TopLeftX(w)
         /\ bb.minY <= TopLeftY(w)
         /\ VertexX(w, 1) # None => bb.maxX >= VertexX(w, 1)[1]
         /\ VertexY(w, 2) # None => bb.maxY >= VertexY(w, 2)[1]

\* detectText went through the "no annotations" branch.
NoTextReturned ==
  /\ entry = "detect"
  /\ pc = "detected"
  /\ credentials
  /\ error = None
  /\ NoDetections(detections)

C8_NeverThrows ==
  entry = "organize" => pc # "organize_threw"

\* C9: the returned lines are in top-to-bottom order: the word that opened a
\* later line lies more than the threshold below the word that opened an
\* earlier line, and no word of an earlier line lies below a word of a later
\* line.
C9_TopToBottom ==
  Returned =>
    \A a, b \in 1..Len(lines) :
      a < b =>
        /\ organized[1][a].lineNumber < organized[1][b].lineNumber
        /\ OpenerY(b) > OpenerY(a) + 20
        /\ \A j \in 1..Len(organized[1][a].words) :
             \A k \in 1..Len(organized[1][b].words) :
               organized[1][a].words[j].position.y
                 <= organized[1][b].words[k].position.y

C9_Witness ==
  /\ Returned
  /\ Len(lines) = 3
  /\ sortedTexts # <<1, 2, 3>>

\* detectText returned for a provider result with at least one annotation.
DetectedSome ==
  /\ entry = "detect"
  /\ pc = "detected"
  /\ ~NoDetections(detections)

\* C10: for n >= 1 annotations the full text is the first annotation's
\* description (the empty string if it has none; the result reports it
\* trimmed), the word list is built from exactly the other n - 1
\* annotations in their order, a missing score becomes confidence 0, and no
\* exception is raised when an annotation has no bounding polygon.
C10_WordList ==
  /\ (entry = "detect" /\ ~NoDetections(detections))
       => pc \notin {"organize_threw", "detect_threw"}
  /\ DetectedSome =>
       LET ds == detections[1]
           res == result[1]
       IN /\ res.success = TRUE
          /\ fullText = IF ds[1].description = None THEN << >>
                        ELSE ds[1].description[1]
          /\ res.text = Trim(fullText)
          /\ Len(res.details) = Len(ds) - 1
          /\ \A k \in 1..Len(ds) - 1 :
               LET d == res.details[k][1]
               IN /\ d.text = ds[k + 1].description
                  /\ d.boundingBox = ds[k + 1].boundingPoly
                  /\ d.confidence =
                       IF ds[k + 1].score = None THEN Some(0) ELSE ds[k + 1].score

C10_Witness ==
  /\ DetectedSome
  /\ Len(detections[1]) = 3
  /\ detections[1][2].boundingPoly = None
  /\ detections[1][3].score = None
  /\ result[1].success = TRUE

\* The top-left coordinates of a word with a missing one read as 0.
EffectiveX(w) == IF VertexX(w, 0) = None THEN 0 ELSE VertexX(w, 0)[1]
EffectiveY(w) == IF VertexY(w, 0) = None THEN 0 ELSE VertexY(w, 0)[1]

\* C11: a single word without a bounding box gives exactly one line,
\* numbered 1, holding that word at position (0, 0) with an all-zero
\* bounding box; and every missing top-left coordinate counts as 0 in the
\* reported position and in the grouping.
C11_MissingGeometry ==
  Returned =>
    /\ (Len(textDetails[1]) = 1 /\ WordAt(1).boundingBox = None) =>
         /\ Len(organized[1]) = 1
         /\ organized[1][1].lineNumber = 1
         /\ organized[1][1].wordCount = 1
         /\ organized[1][1].words[1].text = WordAt(1).text
         /\ organized[1][1].words[1].position = [x |-> 0, y |-> 0]
         /\ organized[1][1].boundingBox =
              [minX |-> 0, maxX |-> 0, minY |-> 0, maxY |-> 0]
    /\ \A n \in 1..Len(lines) : \A k \in 1..Len(lines[n].words) :
         LET w == WordAt(lines[n].words[k])
         IN /\ organized[1][n].words[k].position =
                 [x |-> EffectiveX(w), y |-> EffectiveY(w)]
            /\ VertexY(w, 0) = None =>
                 \A r \in Range(lines[n].words) :
                   Abs(EffectiveY(WordAt(r)) - 0) <= 20

C11_Witness ==
  /\ Returned
  /\ Len(textDetails[1]) = 1
  /\ WordAt(1).boundingBox = None
  /\ organized[1][1].boundingBox.maxX = 0

\* C15 as stated: within every output line the words' x are strictly
\* increasing.
C15_StrictlyIncreasingX ==
  Returned =>
    \A n \in 1..Len(organized[1]) :
      \A k \in 1..Len(organized[1][n].words) - 1 :
        organized[1][n].words[k].position.x
          < organized[1][n].words[k + 1].position.x

\* C15 amended: within every output line the words' x never decrease, and
\* two consecutive words with the same x are in ascending order of y (the
\* order the y sort left them in).
C15_IncreasingXTiesByY ==
  Returned =>
    \A n \in 1..Len(organized[1]) :
      \A k \in 1..Len(organized[1][n].words) - 1 :
        LET a == organized[1][n].words[k].position
            b == organized[1][n].words[k + 1].position
        IN a.x < b.x \/ (a.x = b.x /\ a.y <= b.y)

C15_Witness ==
  /\ Returned
  /\ \E n \in 1..Len(organized[1]) :
       /\ Len(organized[1][n].words) >= 2
       /\ organized[1][n].words[1].position.x = organized[1][n].words[2].position.x
       /\ organized[1][n].words[1].position.y < organized[1][n].words[2].position.y
       /\ lines[n].words[1] > lines[n].words[2]

\* The drifting words of C16's example: y = 0, 15, 30.
DriftingWords == <<Some(Detail(AnnP)), Some(Detail(AnnQ)), Some(Detail(AnnR))>>

\* C16: the anchor of a line is the y of the word that opened it and is
\* never recomputed; a word joins the current line exactly when its y is
\* within 20 of that word's y, whatever was appended in between; the words
\* at y = 0, 15, 30 give the lines {0, 15} and {30}.
C16_AnchorPinned ==
  (textDetails # None /\ sortedTexts # << >>) =>
    /\ \A n \in 1..Len(lines) : lines[n].averageY = OpenerY(n)
    /\ \A p \in 2..idx - 1 :
         LET r == sortedTexts[p]
             q == sortedTexts[p - 1]
         IN \A n \in LinesOf(q) :
              (n \in LinesOf(r)) <=> Abs(TopLeftY(WordAt(r)) - OpenerY(n)) <= 20
    /\ (organized # None /\ textDetails[1] = DriftingWords) =>
         /\ Len(organized[1]) = 2
         /\ organized[1][1].text = <<"P", " ", "Q">>
         /\ organized[1][2].text = <<"R">>

C16_Witness ==
  /\ organized # None
  /\ textDetails # None
  /\ textDetails[1] = DriftingWords
  /\ Len(lines) = 2
  /\ lines[1].averageY = 0
  /\ lines[2].averageY = 30

\* organizeTextByLines is running or has just been entered.
InOrganize == pc \in {"organize", "group", "map"}

\* C17: organizeTextByLines leaves its argument alone: no step of it changes
\* the list (its length, its elements, their order, the words themselves);
\* so the details detectText returns are the words in provider order.
C17_ArgumentUntouched ==
  /\ [][InOrganize => textDetails' = textDetails]_vars
  /\ [](DetectedSome => result[1].details = TextDetails(detections[1]))

C17_Witness ==
  /\ DetectedSome
  /\ result[1].success
  /\ sortedTexts = <<3, 1, 2>>
  /\ Len(result[1].lines) = 2
  /\ result[1].details = textDetails[1]

\* ---------------------------------------------------------------- C12
\* The provider call of detectText rejected.
ProviderRejected == entry = "detect" /\ detections = None /\ error # None

\* C12: when the provider call rejects, organizeTextByLines is never entered
\* for that request, detectText goes through its catch block and returns
\* success = false with empty text, an empty word list and the error's code
\* and message, and the route answers with a failure: POST /ocr/text sends
\* the failure result itself, the v1 routes send 400 and "Error: " + message.
C12_ProviderFailure ==
  ProviderRejected =>
    /\ pc \in {"detect_threw", "detected", "responded"}
    /\ textDetails = None /\ sortedTexts = << >> /\ lines = << >>
    /\ organized = None
    /\ pc # "detect_threw" =>
         /\ ~result[1].success
         /\ result[1].text = << >> /\ result[1].details = << >>
         /\ result[1].error = [code |-> error[1].code,
                               message |-> error[1].message]
    /\ pc = "responded" =>
         IF route = "POST /ocr/text"
           THEN /\ ~response[1].body.success
                /\ response[1].body.message = result[1].message
                /\ response[1].body.error = result[1].error
           ELSE /\ response[1].status = 400
                /\ response[1].body = [text |-> ErrorText(result[1].message)]

C12_Witness ==
  /\ ProviderRejected /\ pc = "responded" /\ route = "POST /ocr/text"
  /\ response[1].status = 200 /\ ~response[1].body.success
  /\ response[1].body.error.code = Some(7)

\* ---------------------------------------------------------------- C13
\* C13: with requests in flight at once, whatever the order in which their
\* downloads and provider calls settle, a client receives at most one
\* response, has received one when its handler has finished, and the
\* response is the one built from the result its request gets when it is
\* processed alone.
C13_NoInterference ==
  \A r \in Clients :
    /\ Len(exchange[r].responses) <= 1
    /\ pending[r].op = "done" => Len(exchange[r].responses) = 1
    /\ Len(exchange[r].responses) = 1 =>
         /\ exchange[r].request # None
         /\ exchange[r].responses[1].status =
              ResultResponse(exchange[r].request[1].route,
                             Alone(exchange[r].request[1])).status
         /\ exchange[r].responses[1] =
              ResultResponse(exchange[r].request[1].route,
                             Alone(exchange[r].request[1]))

C13_Witness ==
  /\ credentials
  /\ pending[1].op = "ocr" /\ pending[1].arg = Some("img3")
  /\ pending[2].op = "done" /\ exchange[2].request[1].image = Some("img2")
  /\ exchange[2].responses[1].status = 400
  /\ exchange[1].responses = << >>

\* ---------------------------------------------------------------- C14
\* C14: the download detectTextFromUrl issues carries the request's
\* authorization value (the body field, else the Authorization header; the
\* header alone for GET /) as its Authorization header, and carries none when
\* the request supplied none.
C14_AuthorizationForwarded ==
  download # None =>
    download[1].authorization =
      (IF Truthy(AuthHeader(route, request[1]))
         THEN AuthHeader(route, request[1]) ELSE None)

\* ---------------------------------------------------------------- C18
V1Routes == Routes \ {"POST /ocr/text"}

\* A request to a v1 OCR endpoint has been answered.
V1Answered ==
  /\ route \in V1Routes
  /\ route = "GET /" => Truthy(request[1].query)
  /\ response # None

\* The request lacks the input its route requires.
MissingInput == Dispatch(route, request[1]) = "none" /\ request[1].upload = "none"

\* The parts of C18 that do not concern exceptions: a response is sent only
\* where none was sent before; a request that can take no further step has been
\* answered; 200 {text: result.text} exactly for a result with success =
\* true; 400 without a service call for a missing input; 400 and "Error: " +
\* message for a result with success = false.
V1Responses ==
  /\ [][response' # response => response = None]_vars
  /\ [](route # "none" /\ ~ENABLED Next => response # None)
  /\ [](V1Answered =>
          /\ response[1].status = 200 <=> (IF result = None THEN FALSE
                                           ELSE result[1].success)
          /\ response[1].status = 200 =>
               response[1].body = [text |-> result[1].text]
          /\ MissingInput =>
               /\ response[1].status = 400
               /\ result = None /\ entry = "none" /\ via = "none"
               /\ download = None
          /\ (IF result = None THEN FALSE ELSE ~result[1].success) =>
               /\ response[1].status = 400
               /\ response[1].body = [text |-> ErrorText(result[1].message)])

\* C18 as stated: the above, and every exception raised while a request is
\* served gives 500.
C18_ExceptionGives500 ==
  /\ V1Responses
  /\ [](V1Answered /\ request[1].upload \in {"not_image", "too_large"} =>
          response[1].status = 500)

\* C18, amended: the above, and an exception gives 500 unless it is multer's
\* file-size rejection, which the error-handling middleware answers with 400
\* before the handler runs; in neither case is the OCR service called.
C18_V1Responses ==
  /\ V1Responses
  /\ [](V1Answered /\ request[1].upload \in {"not_image", "too_large"} =>
          /\ response[1].status =
               (IF request[1].upload = "too_large" THEN 400 ELSE 500)
          /\ result = None /\ entry = "none")

C18_Witness ==
  /\ V1Answered /\ route = "POST /api/v1/" /\ via = "url"
  /\ result # None /\ download # None /\ entry = "none"
  /\ response[1].status = 400

====
